---------------------------- MODULE Spec2Model ----------------------------
(***************************************************************************)
(* Model of the slide-video renderer of hep-impuls/e-id:                  *)
(*   src/html/video.py            static variant  (one PNG per slide)     *)
(*   src/html/video_animated.py   animated variant (layered clips)        *)
(*                                                                         *)
(* Units.  Times are integers in hundredths of a second (1.0 s = 100).    *)
(* Pixel widths are integers in tenths of a pixel (the code measures a    *)
(* token as len * size * 0.6).  Heights and font sizes are whole pixels,  *)
(* as in the code (int(...) everywhere).                                   *)
(*                                                                         *)
(* A text is a sequence of one-character strings.  The character "sup2"   *)
(* stands for U+00B2, a character for which str.isdigit() is true and     *)
(* int() raises ValueError.                                                *)
(***************************************************************************)
EXTENDS Integers, Sequences, FiniteSets, TLC

VARIABLES
    \* ---- main(): the pipeline -------------------------------------------
    pc,          \* position in main()
    variant,     \* "static" (video.py) or "animated" (video_animated.py)
    entries,     \* the timestamps of data["entries"], in input order
    mp3,         \* data.get("mp3"): "url", "path" or "none"
    alen,        \* float(aclip.duration)
    ts,          \* sorted timestamps
    durs,        \* durations_from_timestamps(ts, alen)
    order,       \* slide indexes after slides.sort
    tmpfile,     \* the NamedTemporaryFile(delete=False) of download_if_url exists
    aclip_open,  \* the AudioFileClip handle is open
    tmpdir,      \* the tempfile.mkdtemp directory exists
    rendered,           \* number of slides rendered / composed so far
    panel,       \* left panel of the slide produced last: "image" or "blank"
    audio,       \* the interval handed to aclip.subclip
    left_img,    \* the left image of the slide handled last: "ok", "missing", "corrupt"
    \* ---- tokenize_md ----------------------------------------------------
    tpc, text, i, runs,
    \* ---- parse_ts -------------------------------------------------------
    ppc, ts_str, ts_out,
    \* ---- wrap_rich ------------------------------------------------------
    wpc, w_runs, w_size, max_w, w_n, cur, cur_w, lines,
    \* ---- auto-fit layout ------------------------------------------------
    lpc,         \* position in the auto-fit loop and the placement after it
    renderer,    \* "static" (render_slide_image) or "animated" (layout_right_column)
    explanation, raw_lines, iw, ih, base_size,
    has_size,    \* hasattr(font, "size"): line heights follow the font size
    expl_size, lines_size, expl_h, text_h, total_h,
    iters,       \* completed iterations of the while True loop
    block_h, start_y, call_y, block_ys,
    cur_y,       \* the drawing cursor after the last line block
    \* ---- build_slide_clip ----------------------------------------------
    cpc, duration, nblocks, idx, layers

mainVars == <<pc, variant, entries, mp3, alen, ts, durs,
              order, tmpfile, aclip_open, tmpdir, rendered, panel, audio,
              left_img>>
tokVars  == <<tpc, text, i, runs>>
tsVars   == <<ppc, ts_str, ts_out>>
wrapVars == <<wpc, w_runs, w_size, max_w, w_n, cur, cur_w, lines>>
fitVars  == <<lpc, renderer, explanation, raw_lines, iw, ih, base_size, has_size,
              expl_size, lines_size, expl_h, text_h, total_h, iters,
              block_h, start_y, call_y, block_ys, cur_y>>
clipVars == <<cpc, duration, nblocks, idx, layers>>
vars == <<mainVars, tokVars, tsVars, wrapVars, fitVars, clipVars>>

\* what an action of one component leaves alone
notMain == <<tokVars, tsVars, wrapVars, fitVars, clipVars>>
notTok  == <<mainVars, tsVars, wrapVars, fitVars, clipVars>>
notTs   == <<mainVars, tokVars, wrapVars, fitVars, clipVars>>
notWrap == <<mainVars, tokVars, tsVars, fitVars, clipVars>>
notFit  == <<mainVars, tokVars, tsVars, wrapVars, clipVars>>
notClip == <<mainVars, tokVars, tsVars, wrapVars, fitVars>>

----------------------------------------------------------------------------
(* Generic helpers *)

Max(a, b) == IF a >= b THEN a ELSE b
Min(a, b) == IF a <= b THEN a ELSE b

RECURSIVE SeqSum(_)
SeqSum(s) == IF s = <<>> THEN 0 ELSE Head(s) + SeqSum(Tail(s))

\* all sequences over S of length 0..n
SeqsUpTo(S, n) == UNION { [1..m -> S] : m \in 0..n }

----------------------------------------------------------------------------
(* Program constants *)

MIN_SLIDE_SEC == 100        \* 1.0 s
MAX_LINES == 4
W == 854
H == 480
PADDING == 14
min_size == 12
CALLOUT_DELAY == 20         \* 0.20 s
TEXT_START_DELAY == 350     \* 3.5 s
TEXT_STAGGER == 140         \* 1.40 s
LEFT_W == W \div 3
RIGHT_W == W - LEFT_W

----------------------------------------------------------------------------
(* Bounds of the model *)

MaxEntries == 3     \* entries in the JSON
MaxTsSec == 3       \* largest "ordinary" timestamp, in seconds
MaxAudioHalf == 9   \* audio length up to MaxAudioHalf * 0.5 s
MaxTextLen == 5     \* longest text handed to tokenize_md
MaxTsLen == 4       \* longest timestamp string handed to parse_ts
MaxWrapLen == 5     \* longest text tokenized and handed to wrap_rich
MaxExplLen == 2     \* longest explanation handed to the auto-fit loop
MaxRawLines == 5    \* most lines handed to the auto-fit loop
MaxDurTicks == 200  \* slide durations up to MaxDurTicks * 0.05 s

----------------------------------------------------------------------------
(* Idle values: the components a specification does not exercise *)

IdleMain == /\ pc = "idle" /\ variant = "static"
            /\ entries = <<>> /\ mp3 = "none"
            /\ alen = 0 /\ ts = <<>> /\ durs = <<>> /\ order = <<>>
            /\ tmpfile = FALSE /\ aclip_open = FALSE /\ tmpdir = FALSE
            /\ rendered = 0 /\ panel = "none" /\ audio = <<>>
            /\ left_img = "none"
IdleTok  == tpc = "idle" /\ text = <<>> /\ i = 0 /\ runs = <<>>
IdleTs   == ppc = "idle" /\ ts_str = <<>> /\ ts_out = [ok |-> TRUE, val |-> 0]
IdleWrap == /\ wpc = "idle" /\ w_runs = <<>> /\ w_size = 0 /\ max_w = 0
            /\ w_n = 0 /\ cur = <<>> /\ cur_w = 0 /\ lines = <<>>
IdleFit  == /\ lpc = "idle" /\ renderer = "none"
            /\ explanation = <<>> /\ raw_lines = <<>>
            /\ iw = 0 /\ ih = 0 /\ base_size = 0 /\ has_size = TRUE
            /\ expl_size = 0 /\ lines_size = 0
            /\ expl_h = 0 /\ text_h = 0 /\ total_h = 0 /\ iters = 0
            /\ block_h = 0 /\ start_y = 0 /\ call_y = 0 /\ block_ys = <<>> /\ cur_y = 0
IdleClip == cpc = "idle" /\ duration = 0 /\ nblocks = 0 /\ idx = 0 /\ layers = <<>>


----------------------------------------------------------------------------
(* Timing: durations_from_timestamps and the slide sort of main() *)

Stamps == { 100 * s : s \in 0..MaxTsSec }        \* parse_ts gives whole seconds
AudioLens == { 50 * h : h \in 0..MaxAudioHalf }

\* the mutant of durations_from_timestamps: the max(MIN_SLIDE_SEC, d) is lost
durations_unclamped(tss, audio_len) ==
    [n \in 1..Len(tss) |->
        IF n < Len(tss) THEN tss[n+1] - tss[n] ELSE audio_len - tss[n]]

\* for i, t in enumerate(ts): d = ts[i+1]-t if i < len(ts)-1 else audio_len-t;
\*                            out.append(max(MIN_SLIDE_SEC, d))
durations_from_timestamps(tss, audio_len) ==
    [n \in 1..Len(tss) |->
        LET d == IF n < Len(tss) THEN tss[n+1] - tss[n] ELSE audio_len - tss[n]
        IN  Max(MIN_SLIDE_SEC, d)]

\* slides.sort(key=lambda s: s["timestamp"]): a stable sort; a slide is
\* [index, timestamp].  Insert x after every element whose key is <= x's.
RECURSIVE InsertStable(_, _)
InsertStable(x, s) ==
    IF s = <<>> THEN <<x>>
    ELSE IF Head(s).timestamp <= x.timestamp
         THEN <<Head(s)>> \o InsertStable(x, Tail(s))
         ELSE <<x>> \o s

RECURSIVE SortSlides(_)
SortSlides(s) ==
    IF s = <<>> THEN <<>>
    ELSE InsertStable(s[Len(s)], SortSlides(SubSeq(s, 1, Len(s) - 1)))

\* slides.append({"index": i, "timestamp": parse_ts(...), ...})
Slides(es) == [n \in 1..Len(es) |-> [index |-> n - 1, timestamp |-> es[n]]]

----------------------------------------------------------------------------
(* main(): the pipeline, one action per step that can end the run *)

InitMain ==
    /\ pc = "start" /\ variant \in {"static", "animated"}
    /\ entries = <<>> /\ mp3 = "none"
    /\ alen = 0 /\ ts = <<>> /\ durs = <<>> /\ order = <<>>
    /\ tmpfile = FALSE /\ aclip_open = FALSE /\ tmpdir = FALSE
    /\ rendered = 0 /\ panel = "none" /\ audio = <<>>
    /\ left_img = "none"

\* if not os.path.isfile(json_path): raise FileNotFoundError
JsonMissing ==
    /\ pc = "start"
    /\ pc' = "aborted"
    /\ UNCHANGED notMain
    /\ UNCHANGED <<variant, entries, mp3, alen, ts, durs, order, tmpfile,
                   aclip_open, tmpdir, rendered, panel, audio, left_img>>

\* data = json.load(...); entries = data.get("entries", []);
\* if not entries: raise ValueError
LoadJson ==
    /\ pc = "start"
    /\ \E es \in SeqsUpTo(Stamps, MaxEntries) :
          /\ entries' = es
          /\ pc' = IF es = <<>> THEN "aborted" ELSE "resolve_audio"
    /\ UNCHANGED notMain
    /\ UNCHANGED <<variant, mp3, alen, ts, durs, order, tmpfile,
                   aclip_open, tmpdir, rendered, panel, audio, left_img>>

\* download_if_url on a URL: the temporary file is created (delete=False)
\* before the request; the request or raise_for_status may raise
ResolveUrl ==
    /\ pc = "resolve_audio"
    /\ mp3' = "url"
    /\ tmpfile' = TRUE
    /\ \E fetched \in BOOLEAN :
          pc' = IF fetched THEN "open_audio" ELSE "aborted"
    /\ UNCHANGED notMain
    /\ UNCHANGED <<variant, entries, alen, ts, durs, order,
                   aclip_open, tmpdir, rendered, panel, audio, left_img>>

\* download_if_url on a path: return path_or_url
ResolvePath ==
    /\ pc = "resolve_audio"
    /\ mp3' = "path"
    /\ pc' = "open_audio"
    /\ UNCHANGED notMain
    /\ UNCHANGED <<variant, entries, alen, ts, durs, order, tmpfile,
                   aclip_open, tmpdir, rendered, panel, audio, left_img>>

\* no "mp3": find_local_audio; if not audio_file: raise FileNotFoundError
ResolveLocal ==
    /\ pc = "resolve_audio"
    /\ mp3' = "none"
    /\ \E found \in BOOLEAN :
          pc' = IF found THEN "open_audio" ELSE "aborted"
    /\ UNCHANGED notMain
    /\ UNCHANGED <<variant, entries, alen, ts, durs, order, tmpfile,
                   aclip_open, tmpdir, rendered, panel, audio, left_img>>

\* aclip = AudioFileClip(audio_file); alen = float(aclip.duration)
OpenAudio ==
    /\ pc = "open_audio"
    /\ \E a \in AudioLens : alen' = a
    /\ aclip_open' = TRUE
    /\ pc' = "slides"
    /\ UNCHANGED notMain
    /\ UNCHANGED <<variant, entries, mp3, ts, durs, order, tmpfile,
                   tmpdir, rendered, panel, audio, left_img>>

\* AudioFileClip raises on a file it cannot decode
OpenAudioFails ==
    /\ pc = "open_audio"
    /\ pc' = "aborted"
    /\ UNCHANGED notMain
    /\ UNCHANGED <<variant, entries, mp3, alen, ts, durs, order, tmpfile,
                   aclip_open, tmpdir, rendered, panel, audio, left_img>>

\* slides = [...]; slides.sort(...); ts = [...];
\* animated only: if ts and ts[0] > alen: raise ValueError;
\* durs = durations_from_timestamps(ts, alen)
BuildSlides ==
    /\ pc = "slides"
    /\ LET sorted == SortSlides(Slides(entries))
           tss == [n \in 1..Len(sorted) |-> sorted[n].timestamp]
       IN  /\ order' = [n \in 1..Len(sorted) |-> sorted[n].index]
           /\ ts' = tss
           /\ IF variant = "animated" /\ tss[1] > alen
              THEN pc' = "aborted" /\ durs' = durs
              ELSE /\ durs' = durations_from_timestamps(tss, alen)
                   /\ pc' = IF variant = "static" THEN "mkdtemp" ELSE "compose"
    /\ UNCHANGED notMain
    /\ UNCHANGED <<variant, entries, mp3, alen, tmpfile,
                   aclip_open, tmpdir, rendered, panel, audio, left_img>>

\* static: tmpdir = tempfile.mkdtemp(...)
MkTmpDir ==
    /\ pc = "mkdtemp"
    /\ tmpdir' = TRUE
    /\ pc' = "render"
    /\ UNCHANGED notMain
    /\ UNCHANGED <<variant, entries, mp3, alen, ts, durs, order, tmpfile,
                   aclip_open, rendered, panel, audio, left_img>>

\* static: frame = render_slide_image(...); frame.save(p, "PNG").
\* The left image is pasted if the file exists and decodes; a missing file
\* skips the block, an unreadable one is caught (except Exception: pass).
RenderSlide ==
    /\ pc = "render" /\ rendered < Len(ts)
    /\ \E img \in {"ok", "missing", "corrupt"} :
          /\ left_img' = img
          /\ panel' = IF img = "ok" THEN "image" ELSE "blank"
    /\ rendered' = rendered + 1
    /\ UNCHANGED notMain
    /\ UNCHANGED <<pc, variant, entries, mp3, alen, ts, durs, order, tmpfile,
                   aclip_open, tmpdir, audio>>

\* static: frame.save raises (the directory is not writable, the disk full)
SaveFails ==
    /\ pc = "render" /\ rendered < Len(ts)
    /\ pc' = "aborted"
    /\ UNCHANGED notMain
    /\ UNCHANGED <<variant, entries, mp3, alen, ts, durs, order, tmpfile,
                   aclip_open, tmpdir, rendered, panel, audio, left_img>>

\* static: clips = [...]; video = concatenate_videoclips(clips)
RenderDone ==
    /\ pc = "render" /\ rendered = Len(ts)
    /\ pc' = "set_audio"
    /\ UNCHANGED notMain
    /\ UNCHANGED <<variant, entries, mp3, alen, ts, durs, order, tmpfile,
                   aclip_open, tmpdir, rendered, panel, audio, left_img>>

\* animated: build_slide_clip(s, dur, ...).  The left image is opened when
\* the file exists, outside any try: an unreadable file raises out of main
ComposeSlide ==
    /\ pc = "compose" /\ rendered < Len(ts)
    /\ \E img \in {"ok", "missing", "corrupt"} :
          /\ left_img' = img
          /\ IF img = "corrupt"
             THEN pc' = "aborted" /\ UNCHANGED <<rendered, panel>>
             ELSE /\ panel' = IF img = "ok" THEN "image" ELSE "blank"
                  /\ rendered' = rendered + 1
                  /\ pc' = pc
    /\ UNCHANGED notMain
    /\ UNCHANGED <<variant, entries, mp3, alen, ts, durs, order, tmpfile,
                   aclip_open, tmpdir, audio>>

\* animated: video = concatenate_videoclips(clips)
ComposeDone ==
    /\ pc = "compose" /\ rendered = Len(ts)
    /\ pc' = "set_audio"
    /\ UNCHANGED notMain
    /\ UNCHANGED <<variant, entries, mp3, alen, ts, durs, order, tmpfile,
                   aclip_open, tmpdir, rendered, panel, audio, left_img>>

\* t0 = ts[0] if ts else 0.0
\* static:   video.set_audio(aclip.subclip(t_start=t0, t_end=alen))
\* animated: video.set_audio(aclip.subclip(t_start=t0, t_end=t0 + video.duration))
SetAudio ==
    /\ pc = "set_audio"
    /\ LET t0 == IF ts # <<>> THEN ts[1] ELSE 0
       IN  audio' = <<t0, IF variant = "static" THEN alen ELSE t0 + SeqSum(durs)>>
    /\ pc' = "write"
    /\ UNCHANGED notMain
    /\ UNCHANGED <<variant, entries, mp3, alen, ts, durs, order, tmpfile,
                   aclip_open, tmpdir, rendered, panel, left_img>>

\* video.write_videofile(...); print("Done.") -- or the encoder raises
WriteVideo ==
    /\ pc = "write"
    /\ \E written \in BOOLEAN :
          pc' = IF written THEN "done" ELSE "aborted"
    /\ UNCHANGED notMain
    /\ UNCHANGED <<variant, entries, mp3, alen, ts, durs, order, tmpfile,
                   aclip_open, tmpdir, rendered, panel, audio, left_img>>

Next ==
    \/ JsonMissing \/ LoadJson \/ ResolveUrl \/ ResolvePath \/ ResolveLocal
    \/ OpenAudio \/ OpenAudioFails \/ BuildSlides \/ MkTmpDir
    \/ RenderSlide \/ SaveFails \/ RenderDone
    \/ ComposeSlide \/ ComposeDone \/ SetAudio \/ WriteVideo

Init == InitMain /\ IdleTok /\ IdleTs /\ IdleWrap /\ IdleFit /\ IdleClip
Spec == Init /\ [][Next]_vars

\* C1: for a non-empty ascending ts and an audio length L, the durations
\* have the length of ts, element n (not last) is max(MIN_SLIDE_SEC,
\* ts[n+1] - ts[n]), the last is max(MIN_SLIDE_SEC, L - ts[last]), and
\* every duration is at least MIN_SLIDE_SEC.
C1_Durations ==
    durs # <<>> =>
        /\ Len(durs) = Len(ts)
        /\ \A n \in 1..Len(ts) : \A m \in 1..Len(ts) : n <= m => ts[n] <= ts[m]
        /\ \A n \in 1..(Len(ts) - 1) :
              durs[n] = (IF ts[n+1] - ts[n] > MIN_SLIDE_SEC
                         THEN ts[n+1] - ts[n] ELSE MIN_SLIDE_SEC)
        /\ durs[Len(ts)] = (IF alen - ts[Len(ts)] > MIN_SLIDE_SEC
                            THEN alen - ts[Len(ts)] ELSE MIN_SLIDE_SEC)
        /\ \A n \in 1..Len(durs) : durs[n] >= MIN_SLIDE_SEC

\* C1 witness: timestamps [0, 2] s with audio length 1.5 s give [2, 1.0]:
\* the last duration is clamped because 1.5 - 2 < 0 (the case [0,5], L=4)
C1_Witness ==
    /\ ts = <<0, 200>> /\ alen = 150 /\ durs = <<200, MIN_SLIDE_SEC>>

\* C10: on every exit of main, normal or aborted, the audio handle is closed
\* and the temporary download and the temporary frame directory are removed.
C10_ReleasedOnExit ==
    pc \in {"done", "aborted"} =>
        ~aclip_open /\ ~tmpfile /\ ~tmpdir

\* C11: in both variants a left image that is missing, or that exists and
\* cannot be decoded, is not fatal: the slide is produced with a blank left
\* panel and the run goes on with the remaining slides.
C11_BadImageNotFatal ==
    [][(RenderSlide \/ ComposeSlide) =>
          (left_img' \in {"missing", "corrupt"} =>
              /\ panel' = "blank"
              /\ rendered' = rendered + 1
              /\ pc' = pc)]_vars

\* C12: in both variants the audio attached to the output starts at the first
\* slide timestamp t0, its length equals the total video length (the sum of
\* the derived durations, clamped ones included), and the requested interval
\* [t0, end] is a valid part of the track: t0 <= end <= audio length.
C12_AudioMatchesVideo ==
    (pc \in {"write", "done"} /\ ts # <<>>) =>
        /\ audio[1] = ts[1]
        /\ audio[2] - audio[1] = SeqSum(durs)
        /\ audio[1] <= audio[2]
        /\ audio[2] <= alen


----------------------------------------------------------------------------
(* tokenize_md: the scan, one action per branch of the loop body *)

TokAlphabet == {"a", "b", " ", "*"}
TokTexts == SeqsUpTo(TokAlphabet, MaxTextLen)

\* the scan cannot be followed forever: once runs holds RunCap entries the
\* model stops following a scan that is still appending
RunCap == MaxTextLen + 2

\* text.startswith(pat, pos), pos counted from 0
StartsWith(t, pat, pos) ==
    /\ pos + Len(pat) <= Len(t)
    /\ \A n \in 1..Len(pat) : t[pos + n] = pat[n]

\* text.find(pat, from): the lowest index >= from where pat starts, or -1
Find(t, pat, from) ==
    LET hits == { j \in from..Len(t) : StartsWith(t, pat, j) }
    IN  IF hits = {} THEN -1
        ELSE CHOOSE j \in hits : \A h \in hits : j <= h

\* text[a:b]
Slice(t, a, b) == SubSeq(t, a + 1, b)

Run(txt, st) == [text |-> txt, style |-> st]

\* if text.startswith("**", i): j = text.find("**", i+2); if j != -1: ...
BoldAt(t, pos) == StartsWith(t, <<"*", "*">>, pos) /\ Find(t, <<"*", "*">>, pos + 2) # -1

\* if text.startswith("*", i): j = text.find("*", i+1); if j != -1: ...
\* (reached only when the bold branch did not `continue`)
ItalicAt(t, pos) == /\ ~BoldAt(t, pos)
                    /\ StartsWith(t, <<"*">>, pos) /\ Find(t, <<"*">>, pos + 1) # -1

\* j = i; while j < len(text) and not text.startswith("**", j)
\*                            and text[j] != "*": j += 1
NormalEnd(t, pos) ==
    LET stops == { j \in pos..Len(t) :
                      \/ j >= Len(t)
                      \/ StartsWith(t, <<"*", "*">>, j)
                      \/ t[j + 1] = "*" }
    IN  CHOOSE j \in stops : \A h \in stops : j <= h

\* one iteration of the while loop at index pos: the new index and runs
TokStep(t, pos, rs) ==
    IF BoldAt(t, pos)
    THEN LET j == Find(t, <<"*", "*">>, pos + 2)
         IN  [i |-> j + 2, runs |-> Append(rs, Run(Slice(t, pos + 2, j), "bold"))]
    ELSE IF ItalicAt(t, pos)
    THEN LET j == Find(t, <<"*">>, pos + 1)
         IN  [i |-> j + 1, runs |-> Append(rs, Run(Slice(t, pos + 1, j), "italic"))]
    ELSE LET j == NormalEnd(t, pos)
         IN  [i |-> j, runs |-> Append(rs, Run(Slice(t, pos, j), "normal"))]

InitTok ==
    /\ tpc = "loop" /\ text \in TokTexts /\ i = 0 /\ runs = <<>>
    /\ IdleMain /\ IdleTs /\ IdleWrap /\ IdleFit /\ IdleClip

TokBold ==
    /\ tpc = "loop" /\ i < Len(text) /\ Len(runs) < RunCap
    /\ BoldAt(text, i)
    /\ i' = TokStep(text, i, runs).i
    /\ runs' = TokStep(text, i, runs).runs
    /\ UNCHANGED <<tpc, text>>
    /\ UNCHANGED notTok

TokItalic ==
    /\ tpc = "loop" /\ i < Len(text) /\ Len(runs) < RunCap
    /\ ItalicAt(text, i)
    /\ i' = TokStep(text, i, runs).i
    /\ runs' = TokStep(text, i, runs).runs
    /\ UNCHANGED <<tpc, text>>
    /\ UNCHANGED notTok

TokNormal ==
    /\ tpc = "loop" /\ i < Len(text) /\ Len(runs) < RunCap
    /\ ~BoldAt(text, i) /\ ~ItalicAt(text, i)
    /\ i' = TokStep(text, i, runs).i
    /\ runs' = TokStep(text, i, runs).runs
    /\ UNCHANGED <<tpc, text>>
    /\ UNCHANGED notTok

\* while i < len(text) is false: return runs
TokReturn ==
    /\ tpc = "loop" /\ i >= Len(text)
    /\ tpc' = "done"
    /\ UNCHANGED <<text, i, runs>>
    /\ UNCHANGED notTok

NextTok == TokBold \/ TokItalic \/ TokNormal \/ TokReturn

SpecTok == InitTok /\ [][NextTok]_vars

\* tokenize_md as a function: the runs, or hang when an iteration leaves the
\* index where it was (the iteration depends on text and i only, so it then
\* repeats for ever)
RECURSIVE TokRun(_, _, _)
TokRun(t, pos, rs) ==
    IF pos >= Len(t) THEN [hang |-> FALSE, runs |-> rs]
    ELSE LET nx == TokStep(t, pos, rs)
         IN  IF nx.i = pos THEN [hang |-> TRUE, runs |-> rs]
             ELSE TokRun(t, nx.i, nx.runs)

tokenize_md(t) == TokRun(t, 0, <<>>)

StarCount(t) == Cardinality({ n \in 1..Len(t) : t[n] = "*" })

\* C2: the scan index strictly advances on every iteration of the loop of
\* tokenize_md, also at an opening marker that has no close.
C2_IndexAdvances ==
    [][(TokBold \/ TokItalic \/ TokNormal) => i' > i]_vars

\* C3: an opening marker with no matching close yields no bold or italic
\* run and stays literal in a normal run: a text with one lone * is a
\* single normal run, an unterminated ** never gives an empty italic run;
\* a closed marker gives one run with the delimiters stripped.
C3_UnterminatedLiteral ==
    /\ \A n \in 1..Len(runs) : ~(runs[n].style = "italic" /\ runs[n].text = <<>>)
    /\ StarCount(text) = 1 =>
          /\ Len(runs) <= 1
          /\ \A n \in 1..Len(runs) : runs[n].style = "normal"
          /\ tpc = "done" => runs = <<Run(text, "normal")>>
    /\ (tpc = "done" /\ text = <<"*", "*", "a", "*", "*">>) =>
          runs = <<Run(<<"a">>, "bold")>>


----------------------------------------------------------------------------
(* parse_ts *)

\* characters of a timestamp string: decimal digits, both separators, a
\* letter, and "sup2" (U+00B2: isdigit() is true, int() rejects it)
DecimalChars == {"0", "1", "3"}
DigitChars == DecimalChars \cup {"sup2"}
TsAlphabet == DigitChars \cup {":", "_", "x"}
TsStrings == SeqsUpTo(TsAlphabet, MaxTsLen)

\* ts.replace(":", "_")
ReplaceColon(t) == [n \in 1..Len(t) |-> IF t[n] = ":" THEN "_" ELSE t[n]]

\* ts.split("_"): the components between the separators, empty ones kept
RECURSIVE SplitUnderscore(_)
SplitUnderscore(t) ==
    LET seps == { n \in 1..Len(t) : t[n] = "_" }
    IN  IF seps = {} THEN <<t>>
        ELSE LET n == CHOOSE x \in seps : \A y \in seps : x <= y
             IN  <<SubSeq(t, 1, n - 1)>> \o SplitUnderscore(SubSeq(t, n + 1, Len(t)))

\* str.isdigit(): non-empty and every character is a digit character
IsDigit(c) == c # <<>> /\ \A n \in 1..Len(c) : c[n] \in DigitChars

DigitVal(ch) == IF ch = "0" THEN 0 ELSE IF ch = "1" THEN 1 ELSE 3

\* int(c) for a string of digit characters: the value, or ValueError when a
\* character is not a decimal digit
RECURSIVE DecimalValue(_)
DecimalValue(c) ==
    IF c = <<>> THEN 0
    ELSE 10 * DecimalValue(SubSeq(c, 1, Len(c) - 1)) + DigitVal(c[Len(c)])

IntRaises(c) == \E n \in 1..Len(c) : c[n] \notin DecimalChars

\* m, s = (ts.split("_") + ["0","0"])[:2]
TsComponents(t) ==
    SubSeq(SplitUnderscore(ReplaceColon(t)) \o <<(<<"0">>), (<<"0">>)>>, 1, 2)

\* return (int(m) if m.isdigit() else 0) * 60 + (int(s) if s.isdigit() else 0)
parse_ts(t) ==
    LET m == TsComponents(t)[1]
        s == TsComponents(t)[2]
    IN  IF (IsDigit(m) /\ IntRaises(m)) \/ (IsDigit(s) /\ IntRaises(s))
        THEN [ok |-> FALSE, val |-> 0]
        ELSE [ok |-> TRUE,
              val |-> (IF IsDigit(m) THEN DecimalValue(m) ELSE 0) * 60
                      + (IF IsDigit(s) THEN DecimalValue(s) ELSE 0)]

InitTs ==
    /\ ppc = "call" /\ ts_str \in TsStrings /\ ts_out = [ok |-> TRUE, val |-> 0]
    /\ IdleMain /\ IdleTok /\ IdleWrap /\ IdleFit /\ IdleClip

ParseTsReturn ==
    /\ ppc = "call" /\ parse_ts(ts_str).ok
    /\ ts_out' = parse_ts(ts_str)
    /\ ppc' = "done"
    /\ UNCHANGED ts_str
    /\ UNCHANGED notTs

\* int() raises ValueError and nothing in parse_ts catches it
ParseTsRaise ==
    /\ ppc = "call" /\ ~parse_ts(ts_str).ok
    /\ ts_out' = parse_ts(ts_str)
    /\ ppc' = "raised"
    /\ UNCHANGED ts_str
    /\ UNCHANGED notTs

NextTs == ParseTsReturn \/ ParseTsRaise

SpecTs == InitTs /\ [][NextTs]_vars

\* a component counts as a number when it is a non-empty string of
\* decimal digits
NumericOrZero(c) ==
    IF c # <<>> /\ (\A n \in 1..Len(c) : c[n] \in DecimalChars)
    THEN DecimalValue(c) ELSE 0

\* C4: parse_ts never fails: with ":" read as "_" it takes the first two
\* components, reads a missing or non-numeric one as 0, and returns
\* minutes*60 + seconds.
C4_NeverFails ==
    /\ ppc # "raised"
    /\ ppc = "done" =>
          ts_out.val = NumericOrZero(TsComponents(ts_str)[1]) * 60
                       + NumericOrZero(TsComponents(ts_str)[2])


----------------------------------------------------------------------------
(* wrap_rich: one action per branch of the token loop *)

\* re.findall(r"\S+|\s+", txt): the maximal blocks of non-space and of
\* space characters, in order
RECURSIVE ReTokens(_)
ReTokens(txt) ==
    IF txt = <<>> THEN <<>>
    ELSE LET sp == (txt[1] = " ")
             ends == { n \in 1..Len(txt) :
                          /\ \A m \in 1..n : (txt[m] = " ") = sp
                          /\ n = Len(txt) \/ (txt[n + 1] = " ") # sp }
             n == CHOOSE x \in ends : TRUE
         IN  <<SubSeq(txt, 1, n)>> \o ReTokens(SubSeq(txt, n + 1, Len(txt)))

\* tok.isspace()
IsSpace(tok) == tok # <<>> /\ \A n \in 1..Len(tok) : tok[n] = " "

\* for txt, st in runs: for tok in re.findall(...): the (tok, st) pairs
RECURSIVE RunTokens(_)
RunTokens(rs) ==
    IF rs = <<>> THEN <<>>
    ELSE LET toks == ReTokens(Head(rs).text)
         IN  [n \in 1..Len(toks) |-> [tok |-> toks[n], style |-> Head(rs).style]]
             \o RunTokens(Tail(rs))

\* seg_w(t, st): the measured width of a token, in tenths of a pixel.
\* draw.textlength is modelled by the code's own estimate
\* len(t) * fonts["normal"].size * 0.6
seg_w(tok, size) == Len(tok) * size * 6

\* the width limit in the same unit
WidthLimit(px) == px * 10

\* if cur_w + w <= max_w or (tok.isspace() and not cur):
Fits(tk, c, cw, size, px) ==
    \/ cw + seg_w(tk.tok, size) <= WidthLimit(px)
    \/ (IsSpace(tk.tok) /\ c = <<>>)

\* the body of the token loop on one token: the new (lines, cur, cur_w)
WrapStep(st, tk, size, px) ==
    IF Fits(tk, st.cur, st.cur_w, size, px)
    THEN [lines |-> st.lines, cur |-> Append(st.cur, tk),
          cur_w |-> st.cur_w + seg_w(tk.tok, size)]
    ELSE [lines |-> Append(st.lines, st.cur), cur |-> <<tk>>,
          cur_w |-> seg_w(tk.tok, size)]

\* the mutant of WrapFinish: the last line is appended even when it is empty
WrapFinishAlways(ls, c) == Append(ls, c)

\* if cur: lines.append(cur); return lines
WrapFinish(ls, c) == IF c # <<>> THEN Append(ls, c) ELSE ls

RECURSIVE WrapFold(_, _, _, _)
WrapFold(st, toks, size, px) ==
    IF toks = <<>> THEN WrapFinish(st.lines, st.cur)
    ELSE WrapFold(WrapStep(st, Head(toks), size, px), Tail(toks), size, px)

\* wrap_rich(draw, runs, fonts, max_w) as a function
wrap_rich(rs, size, px) ==
    WrapFold([lines |-> <<>>, cur |-> <<>>, cur_w |-> 0], RunTokens(rs), size, px)

WrapAlphabet == {"a", " ", "*"}
WrapSizes == {12, 20}
WrapWidths == {5, 20, 40}

\* the callers hand wrap_rich the runs of tokenize_md
InitWrap ==
    /\ wpc = "loop"
    /\ \E t \in SeqsUpTo(WrapAlphabet, MaxWrapLen) :
          /\ ~tokenize_md(t).hang
          /\ w_runs = tokenize_md(t).runs
    /\ w_size \in WrapSizes /\ max_w \in WrapWidths
    /\ w_n = 0 /\ cur = <<>> /\ cur_w = 0 /\ lines = <<>>
    /\ IdleMain /\ IdleTok /\ IdleTs /\ IdleFit /\ IdleClip

WrapState == [lines |-> lines, cur |-> cur, cur_w |-> cur_w]

\* cur.append((tok, st)); cur_w += w
WrapAppend ==
    /\ wpc = "loop" /\ w_n < Len(RunTokens(w_runs))
    /\ LET tk == RunTokens(w_runs)[w_n + 1]
           nx == WrapStep(WrapState, tk, w_size, max_w)
       IN  /\ Fits(tk, cur, cur_w, w_size, max_w)
           /\ lines' = nx.lines /\ cur' = nx.cur /\ cur_w' = nx.cur_w
    /\ w_n' = w_n + 1
    /\ UNCHANGED <<wpc, w_runs, w_size, max_w>>
    /\ UNCHANGED notWrap

\* lines.append(cur); cur = [(tok, st)]; cur_w = seg_w(tok, st)
WrapBreak ==
    /\ wpc = "loop" /\ w_n < Len(RunTokens(w_runs))
    /\ LET tk == RunTokens(w_runs)[w_n + 1]
           nx == WrapStep(WrapState, tk, w_size, max_w)
       IN  /\ ~Fits(tk, cur, cur_w, w_size, max_w)
           /\ lines' = nx.lines /\ cur' = nx.cur /\ cur_w' = nx.cur_w
    /\ w_n' = w_n + 1
    /\ UNCHANGED <<wpc, w_runs, w_size, max_w>>
    /\ UNCHANGED notWrap

\* if cur: lines.append(cur); return lines
WrapReturn ==
    /\ wpc = "loop" /\ w_n = Len(RunTokens(w_runs))
    /\ lines' = WrapFinish(lines, cur)
    /\ wpc' = "done"
    /\ UNCHANGED <<w_runs, w_size, max_w, w_n, cur, cur_w>>
    /\ UNCHANGED notWrap

NextWrap == WrapAppend \/ WrapBreak \/ WrapReturn

SpecWrap == InitWrap /\ [][NextWrap]_vars

RECURSIVE LineWidth(_, _)
LineWidth(line, size) ==
    IF line = <<>> THEN 0
    ELSE seg_w(Head(line).tok, size) + LineWidth(Tail(line), size)

\* C5 as stated: wrap_rich returns at least one line for every input, also
\* for an empty run sequence and for runs whose text is empty.
C5_AtLeastOneLine ==
    wpc = "done" => Len(lines) >= 1

\* C5 amended: wrap_rich returns the empty list exactly when the runs hold
\* no token (no run, or only runs with empty text), and at least one line
\* when they hold a token.
C5_EmptyIffNoTokens ==
    wpc = "done" => ((lines = <<>>) <=> (RunTokens(w_runs) = <<>>))

\* C5 witness: the single run ("", italic) of tokenize_md("**") is wrapped
\* to no line at all
C5_Witness ==
    /\ wpc = "done" /\ w_runs = <<Run(<<>>, "italic")>> /\ lines = <<>>

\* C6: every returned line has a total measured width of at most max_w,
\* and no returned line is empty when the input holds a token.
C6_LinesFit ==
    wpc = "done" =>
        /\ \A n \in 1..Len(lines) : LineWidth(lines[n], w_size) <= WidthLimit(max_w)
        /\ RunTokens(w_runs) # <<>> => \A n \in 1..Len(lines) : lines[n] # <<>>


----------------------------------------------------------------------------
(* The auto-fit loop: render_slide_image (static) and layout_right_column
   (animated) hold the same loop; the placement after it differs *)

\* int(size * 0.94), floored at min_size
Shrink(size) == Max(min_size, (94 * size) \div 100)

\* lh_expl = int(expl_size * 1.3) if hasattr(f_expl["normal"], "size") else 24
LhExpl(size, has) == IF has THEN (130 * size) \div 100 ELSE 24

\* lh_txt = int(lines_size * 1.25) if hasattr(f_txt["normal"], "size") else 20
LhTxt(size, has) == IF has THEN (125 * size) \div 100 ELSE 20

\* the size text is measured at: the font's own, or the fixed size of the
\* default bitmap font, which ignores the size asked for
MeasuredAt(size, has) == IF has THEN size ELSE 10

\* wrap_rich(draw, tokenize_md(txt or ""), fonts, width)
Wrapped(txt, size, has, px) ==
    wrap_rich(tokenize_md(txt).runs, MeasuredAt(size, has), px)

\* (lines_right or [])[:MAX_LINES]
Capped(raw) == SubSeq(raw, 1, Min(Len(raw), MAX_LINES))

\* expl_h = lh_expl * max(1, len(expl_lines)) + 16, wrapped at iw - 20
ExplH(expl, size, has, width) ==
    LhExpl(size, has) * Max(1, Len(Wrapped(expl, size, has, width - 20))) + 16

\* the height of one line block: lh_txt * max(1, len(ls))
BlockH(raw, size, has, width) ==
    LhTxt(size, has) * Max(1, Len(Wrapped(raw, size, has, width)))

\* text_h += lh_txt * max(1, len(ls)) over the capped lines
TextH(raw, size, has, width) ==
    SeqSum([n \in 1..Len(Capped(raw)) |-> BlockH(Capped(raw)[n], size, has, width)])

\* total_h = expl_h + 10 + text_h
TotalH(expl, raw, es, ls, has, width) ==
    ExplH(expl, es, has, width) + 10 + TextH(raw, ls, has, width)

\* the mutant of Accepts: the floor test looks at the lines size only
AcceptsLinesFloor(total, height, es, ls) ==
    total <= height \/ ls <= min_size

\* if total_h <= ih or (expl_size <= min_size and lines_size <= min_size)
Accepts(total, height, es, ls) ==
    total <= height \/ (es <= min_size /\ ls <= min_size)

\* tokenize_md returns on the explanation and on every line it is given
AllTokenize(expl, raw) ==
    /\ ~tokenize_md(expl).hang
    /\ \A n \in 1..Len(Capped(raw)) : ~tokenize_md(Capped(raw)[n]).hang

FitAlphabet == {"a", " ", "*"}
FitLineTexts == {<<>>, <<"a", " ", "a">>}
FitWidths == {24, 60}
FitHeights == {60, 100}
FitBaseSizes == {10, 13, 20}

\* expl_size = int(base_size * 1.00); lines_size = int(base_size * 0.90)
InitFit ==
    /\ lpc = "loop" /\ renderer = "none"
    /\ explanation \in SeqsUpTo(FitAlphabet, MaxExplLen)
    /\ raw_lines \in SeqsUpTo(FitLineTexts, MaxRawLines)
    /\ iw \in FitWidths /\ ih \in FitHeights
    /\ base_size \in FitBaseSizes /\ has_size \in BOOLEAN
    /\ expl_size = base_size /\ lines_size = (90 * base_size) \div 100
    /\ expl_h = 0 /\ text_h = 0 /\ total_h = 0 /\ iters = 0
    /\ block_h = 0 /\ start_y = 0 /\ call_y = 0 /\ block_ys = <<>> /\ cur_y = 0
    /\ IdleMain /\ IdleTok /\ IdleTs /\ IdleWrap /\ IdleClip

\* an iteration that does not break: both sizes shrink
FitShrink ==
    /\ lpc = "loop" /\ AllTokenize(explanation, raw_lines)
    /\ ~Accepts(TotalH(explanation, raw_lines, expl_size, lines_size, has_size, iw),
                ih, expl_size, lines_size)
    /\ expl_size' = Shrink(expl_size)
    /\ lines_size' = Shrink(lines_size)
    /\ iters' = iters + 1
    /\ UNCHANGED <<lpc, renderer, explanation, raw_lines, iw, ih, base_size,
                   has_size, expl_h, text_h, total_h, block_h, start_y, call_y,
                   block_ys, cur_y>>
    /\ UNCHANGED notFit

\* the iteration that breaks (static) or returns (animated)
FitAccept ==
    /\ lpc = "loop" /\ AllTokenize(explanation, raw_lines)
    /\ Accepts(TotalH(explanation, raw_lines, expl_size, lines_size, has_size, iw),
               ih, expl_size, lines_size)
    /\ expl_h' = ExplH(explanation, expl_size, has_size, iw)
    /\ text_h' = TextH(raw_lines, lines_size, has_size, iw)
    /\ total_h' = TotalH(explanation, raw_lines, expl_size, lines_size, has_size, iw)
    /\ iters' = iters + 1
    /\ lpc' = "accepted"
    /\ UNCHANGED <<renderer, explanation, raw_lines, iw, ih, base_size, has_size,
                   expl_size, lines_size, block_h, start_y, call_y, block_ys,
                   cur_y>>
    /\ UNCHANGED notFit

\* the iteration calls tokenize_md on a text on which its scan never ends
FitTokenizeHangs ==
    /\ lpc = "loop" /\ ~AllTokenize(explanation, raw_lines)
    /\ lpc' = "in_tokenize_md"
    /\ UNCHANGED <<renderer, explanation, raw_lines, iw, ih, base_size, has_size,
                   expl_size, lines_size, expl_h, text_h, total_h, iters,
                   block_h, start_y, call_y, block_ys, cur_y>>
    /\ UNCHANGED notFit

\* draw_lines returns y + line_h * len(lines)
DrawLinesEnd(y, wrapped, line_h) == y + line_h * Len(wrapped)

\* static: cur_y = call_y + call_h + 10; for para in wr_lines:
\*             cur_y = draw_lines(draw, ix, cur_y, para, f_txt, ..., lh_txt)
RECURSIVE StaticYs(_, _, _, _, _)
StaticYs(y, raw, size, has, width) ==
    IF raw = <<>> THEN <<>>
    ELSE <<y>> \o StaticYs(DrawLinesEnd(y, Wrapped(Head(raw), size, has, width),
                                        LhTxt(size, has)),
                           Tail(raw), size, has, width)

\* static: the value of cur_y after the last draw_lines call
RECURSIVE StaticCurY(_, _, _, _, _)
StaticCurY(y, raw, size, has, width) ==
    IF raw = <<>> THEN y
    ELSE StaticCurY(DrawLinesEnd(y, Wrapped(Head(raw), size, has, width),
                                 LhTxt(size, has)),
                    Tail(raw), size, has, width)

\* animated: cur_y = call_y + call_h + 10; for idx, block in enumerate(blocks):
\*               h = lh_txt * max(1, len(block)); base_y = cur_y; cur_y += h
RECURSIVE AnimatedYs(_, _, _, _, _)
AnimatedYs(y, raw, size, has, width) ==
    IF raw = <<>> THEN <<>>
    ELSE <<y>> \o AnimatedYs(y + BlockH(Head(raw), size, has, width),
                             Tail(raw), size, has, width)

\* render_slide_image after the loop: fonts rebuilt, the text wrapped and
\* measured again, block_h, start_y = iy + max(0, (ih - block_h) // 2),
\* then the callout and the lines are drawn (iy = PADDING)
StaticPlace ==
    /\ lpc = "accepted"
    /\ renderer' = "static"
    /\ LET bh == TotalH(explanation, raw_lines, expl_size, lines_size, has_size, iw)
           sy == PADDING + Max(0, (ih - bh) \div 2)
           ch == ExplH(explanation, expl_size, has_size, iw)
       IN  /\ block_h' = bh
           /\ start_y' = sy
           /\ call_y' = sy
           /\ block_ys' = StaticYs(sy + ch + 10, Capped(raw_lines), lines_size,
                                   has_size, iw)
           /\ cur_y' = StaticCurY(sy + ch + 10, Capped(raw_lines), lines_size,
                                  has_size, iw)
    /\ lpc' = "done"
    /\ UNCHANGED <<explanation, raw_lines, iw, ih, base_size, has_size,
                   expl_size, lines_size, expl_h, text_h, total_h, iters>>
    /\ UNCHANGED notFit

\* layout_right_column returns start_y = max(0, (ih - total_h) // 2);
\* build_slide_clip: call_h = right["expl_h"]; call_y = iy + right["start_y"]
AnimatedPlace ==
    /\ lpc = "accepted"
    /\ renderer' = "animated"
    /\ LET sy == Max(0, (ih - total_h) \div 2)
       IN  /\ start_y' = sy
           /\ call_y' = PADDING + sy
           /\ block_ys' = AnimatedYs(PADDING + sy + expl_h + 10, Capped(raw_lines),
                                     lines_size, has_size, iw)
           /\ cur_y' = PADDING + sy + expl_h + 10
                          + TextH(raw_lines, lines_size, has_size, iw)
    /\ block_h' = total_h
    /\ lpc' = "done"
    /\ UNCHANGED <<explanation, raw_lines, iw, ih, base_size, has_size,
                   expl_size, lines_size, expl_h, text_h, total_h, iters>>
    /\ UNCHANGED notFit

NextFit == FitShrink \/ FitAccept \/ FitTokenizeHangs \/ StaticPlace \/ AnimatedPlace

SpecFit == InitFit /\ [][NextFit]_vars

\* C7: the auto-fit loop terminates for every explanation, list of lines,
\* box height and base size, after a number of iterations bounded by the
\* base size alone; content that fits at the base sizes is accepted on the
\* first iteration with the sizes unchanged.  Stated as: every iteration
\* that starts completes (the loop is never left inside a call that does
\* not return), and the iterations are bounded by the base size.
C7_AutoFitTerminates ==
    /\ lpc \in {"loop", "accepted", "done"}
    /\ iters <= base_size + 1
    /\ (lpc = "accepted" /\ iters = 1) =>
          (expl_size = base_size /\ lines_size = (90 * base_size) \div 100)

\* C8: the accepted layout has a total block height (callout height + 10 +
\* the heights of the line blocks, callout height = explanation line height
\* * max(1, wrapped lines) + 16) of at most the available height, or both
\* font sizes are at or below the minimum 12.
C8_FitsOrFloor ==
    lpc = "done" =>
        /\ block_h = (LhExpl(expl_size, has_size)
                        * Max(1, Len(Wrapped(explanation, expl_size, has_size, iw - 20)))
                      + 16) + 10 + TextH(raw_lines, lines_size, has_size, iw)
        /\ \/ block_h <= ih
           \/ (expl_size <= 12 /\ lines_size <= 12)

\* C8 witness: a layout that was shrunk to the floor and accepted there
\* although it is higher than the box
C8_Witness ==
    /\ lpc = "done" /\ block_h > ih /\ expl_size = 12 /\ lines_size = 12
    /\ iters > 1

\* C13: for the same explanation, lines (an empty line included) and base
\* size, the static renderer and the animated composer put the callout and
\* every line block at the same resting y: the callout at top inset + start_y,
\* the first block at the callout's bottom + 10, and block k+1 exactly
\* line height * max(1, wrapped lines of block k) below block k.
C13_SameRestingY ==
    lpc = "done" =>
        /\ call_y = PADDING + Max(0, (ih - block_h) \div 2)
        /\ block_ys # <<>> =>
              block_ys[1] = call_y + ExplH(explanation, expl_size, has_size, iw) + 10
        /\ \A n \in 1..(Len(block_ys) - 1) :
              block_ys[n + 1] = block_ys[n]
                  + LhTxt(lines_size, has_size)
                      * Max(1, Len(Wrapped(Capped(raw_lines)[n], lines_size,
                                           has_size, iw)))

\* C14: across the iterations of the auto-fit loop, for every base size,
\* neither the explanation size nor the lines size ever increases: a retry
\* leaves each size equal to max(12, int(0.94 * previous)), and that value
\* is never larger than the previous size.
C14_SizesNeverIncrease ==
    [][FitShrink =>
          /\ expl_size' = Max(12, (94 * expl_size) \div 100)
          /\ lines_size' = Max(12, (94 * lines_size) \div 100)
          /\ expl_size' <= expl_size
          /\ lines_size' <= lines_size]_vars

\* C15: in the static renderer start_y = top inset + max(0, floor((available
\* height - block height) / 2)); when the accepted layout fits, the callout
\* and the line blocks occupy consecutive, non-overlapping vertical intervals
\* (callout, a gap of 10, block 1, block 2, ...) inside [top inset, top inset
\* + available height], and the last drawn block ends at start_y + block_h.
C15_StaticStack ==
    (lpc = "done" /\ renderer = "static") =>
        /\ start_y = PADDING + Max(0, (ih - block_h) \div 2)
        /\ block_h <= ih =>
              /\ call_y = start_y
              /\ block_ys # <<>> =>
                    block_ys[1] = call_y + ExplH(explanation, expl_size, has_size, iw) + 10
              /\ \A n \in 1..(Len(block_ys) - 1) :
                    block_ys[n] + BlockH(Capped(raw_lines)[n], lines_size, has_size, iw)
                        = block_ys[n + 1]
              /\ PADDING <= call_y
              /\ cur_y <= PADDING + ih
              /\ cur_y = start_y + block_h


----------------------------------------------------------------------------
(* build_slide_clip: the layers of one animated slide and their timing *)

\* the mutant of LayerDur: the floor max(0.1, ...) is lost
LayerDurUnfloored(dur, delay) == dur - delay

\* max(0.1, duration - delay)
LayerDur(dur, delay) == Max(10, dur - delay)

\* delay = TEXT_START_DELAY + idx * TEXT_STAGGER
TextDelay(n) == TEXT_START_DELAY + n * TEXT_STAGGER

Layer(kind, n, start, dur) == [kind |-> kind, idx |-> n, start |-> start, dur |-> dur]

\* duration is a slide duration in steps of 0.05 s; nblocks is
\* len(right["blocks"]), at most MAX_LINES
InitClip ==
    /\ cpc = "base"
    /\ duration \in { 5 * d : d \in 1..MaxDurTicks }
    /\ nblocks \in 0..MAX_LINES
    /\ idx = 0 /\ layers = <<>>
    /\ IdleMain /\ IdleTok /\ IdleTs /\ IdleWrap /\ IdleFit

\* base = ColorClip(...).set_duration(duration)
ClipBase ==
    /\ cpc = "base"
    /\ layers' = <<Layer("base", 0, 0, duration)>>
    /\ cpc' = "callout"
    /\ UNCHANGED <<duration, nblocks, idx>>
    /\ UNCHANGED notClip

\* call_clip = rgba_to_clip(call_rgba, max(0.1, duration - CALLOUT_DELAY))
\* call_clip = call_clip.set_start(CALLOUT_DELAY)...
ClipCallout ==
    /\ cpc = "callout"
    /\ layers' = Append(layers, Layer("callout", 0, CALLOUT_DELAY,
                                      LayerDur(duration, CALLOUT_DELAY)))
    /\ cpc' = "text"
    /\ UNCHANGED <<duration, nblocks, idx>>
    /\ UNCHANGED notClip

\* for idx, block in enumerate(right["blocks"]):
\*     delay = TEXT_START_DELAY + idx * TEXT_STAGGER
\*     dur_remain = max(0.1, duration - delay)
\*     tb_clip = rgba_to_clip(tb_rgba, dur_remain); tb_clip.set_start(delay)
ClipTextBlock ==
    /\ cpc = "text" /\ idx < nblocks
    /\ layers' = Append(layers, Layer("text", idx, TextDelay(idx),
                                      LayerDur(duration, TextDelay(idx))))
    /\ idx' = idx + 1
    /\ UNCHANGED <<cpc, duration, nblocks>>
    /\ UNCHANGED notClip

\* return CompositeVideoClip(layers, size=(W, H)).set_duration(duration)
ClipComposite ==
    /\ cpc = "text" /\ idx = nblocks
    /\ cpc' = "done"
    /\ UNCHANGED <<duration, nblocks, idx, layers>>
    /\ UNCHANGED notClip

NextClip == ClipBase \/ ClipCallout \/ ClipTextBlock \/ ClipComposite

SpecClip == InitClip /\ [][NextClip]_vars

\* C9: line block idx starts at TEXT_START_DELAY + idx*TEXT_STAGGER,
\* strictly later than the block before it; the callout starts at
\* CALLOUT_DELAY; every layer has a duration greater than zero, equal to
\* max(0.1, duration - delay), also when its delay is at or past the end of
\* the slide; a finished slide has one text layer per block.
C9_LayerTiming ==
    /\ \A n \in 1..Len(layers) :
          /\ layers[n].dur > 0
          /\ layers[n].kind = "callout" =>
                /\ layers[n].start = CALLOUT_DELAY
                /\ layers[n].dur = (IF duration - CALLOUT_DELAY > 10
                                    THEN duration - CALLOUT_DELAY ELSE 10)
          /\ layers[n].kind = "text" =>
                /\ layers[n].start = TEXT_START_DELAY + layers[n].idx * TEXT_STAGGER
                /\ layers[n].dur = (IF duration - layers[n].start > 10
                                    THEN duration - layers[n].start ELSE 10)
                /\ layers[n - 1].kind = "text" =>
                      /\ layers[n].idx = layers[n - 1].idx + 1
                      /\ layers[n].start > layers[n - 1].start
    /\ cpc = "done" =>
          /\ Len(layers) = nblocks + 2
          /\ layers[2].kind = "callout"
          /\ \A n \in 1..nblocks :
                layers[n + 2].kind = "text" /\ layers[n + 2].idx = n - 1

\* C9 witness: a slide of 1.0 s with four blocks: every text layer starts
\* after the slide has ended and still lasts 0.1 s
C9_Witness ==
    /\ cpc = "done" /\ duration = 100 /\ nblocks = 4
    /\ layers[6].start = 770 /\ layers[6].dur = 10

============================================================================
